---- MODULE Spec2Model ----
(***************************************************************************)
(* FlexibleCumulativeProblem (src/flexible_cumulative_problem.py):         *)
(* evaluate_solution scores a candidate (task_resources, start_times) by   *)
(* its makespan or by the penalty 1e9; random_solution produces candidates.*)
(*                                                                         *)
(* Python lists are functions with domain 0..n-1 (0-based, as in the       *)
(* source); the local list of events is a sequence.  A Python value is a   *)
(* record [tag, items]: tag "list"/"tuple" with its items, or a value      *)
(* without len() ("none", "int") with no items.                            *)
(***************************************************************************)
EXTENDS Integers, Sequences, FiniteSets, TLC

\* Bounds of the instances and candidates drawn by Init.
MaxTasks == 2
MaxRes == 2
MaxProc == 1
MaxWeight == 1
MaxCap == 1
MaxStart == 1

\* penalty = 1e9
Penalty == 1000000000

VARIABLES
    nb_tasks, nb_resources, capacity, task_processing_time_data, weights,
    successors, horizon,        \* the instance (self.*)
    solution,                   \* the candidate object; Absent before one exists
    generated,                  \* TRUE when the candidate came from random_solution
    outcome,                    \* "pending", "returned" or "raised"
    score,                      \* the returned value (0 while none)
    exit_line                   \* source line of the return taken (106: TypeError in len())

vars == <<nb_tasks, nb_resources, capacity, task_processing_time_data, weights,
          successors, horizon, solution, generated, outcome, score, exit_line>>

instance == <<nb_tasks, nb_resources, capacity, task_processing_time_data,
              weights, successors, horizon>>

-----------------------------------------------------------------------------
(* Python values *)

EmptyList == <<>>
\* [0] * n
Zeros(n) == IF n = 0 THEN EmptyList ELSE [i \in 0..(n - 1) |-> 0]
Lists(n, S) == IF n = 0 THEN {EmptyList} ELSE [0..(n - 1) -> S]

PyNone == [tag |-> "none", items |-> EmptyList]
PyInt == [tag |-> "int", items |-> EmptyList]
PyList(l) == [tag |-> "list", items |-> l]
PyTuple(l) == [tag |-> "tuple", items |-> l]
Absent == [tag |-> "absent", items |-> EmptyList]

Pair(a, b) == [k \in 0..1 |-> IF k = 0 THEN a ELSE b]
Candidate(tr, st) == PyTuple(Pair(PyList(tr), PyList(st)))

\* isinstance(v, (list, tuple))
IsListOrTuple(v) == v.tag \in {"list", "tuple"}
\* len(v) is defined (otherwise len raises TypeError)
HasLen(v) == v.tag \in {"list", "tuple"}
PyLen(v) == Cardinality(DOMAIN v.items)

-----------------------------------------------------------------------------
(* _read_instance, line 85: horizon *)

RECURSIVE MaxOver(_, _)
MaxOver(l, n) ==
    IF n = 1 THEN l[0]
    ELSE LET m == MaxOver(l, n - 1) IN IF l[n - 1] > m THEN l[n - 1] ELSE m

\* max(l) of a non-empty list
PyMax(l) == MaxOver(l, Cardinality(DOMAIN l))

RECURSIVE SumMax(_, _)
SumMax(proc, n) == IF n = 0 THEN 0 ELSE SumMax(proc, n - 1) + PyMax(proc[n - 1])

HorizonOf(T, proc) == SumMax(proc, T)

-----------------------------------------------------------------------------
(* evaluate_solution *)

\* line 116
IndexInvalid(r) == r < 0 \/ r >= nb_resources

\* the test with 'or' in place of 'and'
IncompatibleEither(proc_time, weight) == proc_time = 0 \/ weight = 0
\* line 121
Incompatible(proc_time, weight) == proc_time = 0 /\ weight = 0

\* the test with >= in place of >
PrecedenceViolatedStrict(ft, st) == ft >= st
\* line 128
PrecedenceViolated(ft, st) == ft > st

\* current_usage = delta in place of +=
AccumulateAssign(usage, delta) == delta
\* line 145
Accumulate(usage, delta) == usage + delta

\* line 146
OverCapacity(usage, cap) == usage > cap

\* The list objects of a call: the two components of the candidate and the
\* local finish_times; ref names the object the variable finish_times is bound to.
\* finish_times = start_times in place of a fresh list
AllocFinishTimesAliased(store) == [store |-> store, ref |-> "start_times"]
\* line 109: finish_times = [0] * self.nb_tasks, a fresh list
AllocFinishTimes(store) ==
    [store |-> [store EXCEPT !.finish_times = Zeros(nb_tasks)],
     ref |-> "finish_times"]

\* lines 112-123; line = 0 when the loop completes
RECURSIVE ResourceLoop(_, _, _)
ResourceLoop(i, store, ref) ==
    IF i = nb_tasks THEN [line |-> 0, store |-> store]
    ELSE LET r == store.task_resources[i]
             st == store.start_times[i]
         IN  IF IndexInvalid(r) THEN [line |-> 117, store |-> store]
             ELSE LET proc_time == task_processing_time_data[i][r]
                      weight == weights[r][i]
                  IN  IF Incompatible(proc_time, weight)
                      THEN [line |-> 122, store |-> store]
                      ELSE ResourceLoop(i + 1,
                               [store EXCEPT ![ref][i] = st + proc_time], ref)

\* lines 127-129 for one task
RECURSIVE SuccLoop(_, _, _, _)
SuccLoop(i, k, store, ref) ==
    IF k > Len(successors[i]) THEN FALSE
    ELSE IF PrecedenceViolated(store[ref][i], store.start_times[successors[i][k]])
         THEN TRUE
         ELSE SuccLoop(i, k + 1, store, ref)

\* lines 126-129: TRUE when line 129 returns the penalty
RECURSIVE PrecedenceLoop(_, _, _)
PrecedenceLoop(i, store, ref) ==
    IF i = nb_tasks THEN FALSE
    ELSE IF SuccLoop(i, 1, store, ref) THEN TRUE
         ELSE PrecedenceLoop(i + 1, store, ref)

\* lines 133-141: the events of resource r, in the order appended
RECURSIVE Events(_, _, _, _)
Events(r, n, store, ref) ==
    IF n = 0 THEN <<>>
    ELSE LET i == n - 1
             ev == Events(r, n - 1, store, ref)
         IN  IF store.task_resources[i] = r
             THEN LET st == store.start_times[i]
                      ft == store[ref][i]
                      w == weights[r][i]
                  IN  Append(Append(ev, <<st, w>>), <<ft, 0 - w>>)
             ELSE ev

RECURSIVE InsertByTime(_, _)
InsertByTime(s, e) ==
    IF s = <<>> THEN <<e>>
    ELSE IF s[Len(s)][1] <= e[1] THEN Append(s, e)
         ELSE Append(InsertByTime(SubSeq(s, 1, Len(s) - 1), e), s[Len(s)])

RECURSIVE InsertByTimeAndDelta(_, _)
InsertByTimeAndDelta(s, e) ==
    IF s = <<>> THEN <<e>>
    ELSE IF s[Len(s)][1] < e[1] \/ (s[Len(s)][1] = e[1] /\ s[Len(s)][2] <= e[2])
         THEN Append(s, e)
         ELSE Append(InsertByTimeAndDelta(SubSeq(s, 1, Len(s) - 1), e), s[Len(s)])

RECURSIVE SortTuples(_)
\* events.sort() without the key: tuples compared by (time, delta)
SortTuples(ev) ==
    IF ev = <<>> THEN <<>>
    ELSE InsertByTimeAndDelta(SortTuples(SubSeq(ev, 1, Len(ev) - 1)), ev[Len(ev)])

RECURSIVE SortByTime(_)
\* line 142: events.sort(key=lambda x: x[0]); list.sort is stable
SortByTime(ev) ==
    IF ev = <<>> THEN <<>>
    ELSE InsertByTime(SortByTime(SubSeq(ev, 1, Len(ev) - 1)), ev[Len(ev)])

\* lines 143-147: TRUE when line 147 returns the penalty
RECURSIVE Sweep(_, _, _, _)
Sweep(ev, k, current_usage, cap) ==
    IF k > Len(ev) THEN FALSE
    ELSE LET u == Accumulate(current_usage, ev[k][2])
         IN  IF OverCapacity(u, cap) THEN TRUE ELSE Sweep(ev, k + 1, u, cap)

\* lines 132-147
RECURSIVE CapacityLoop(_, _, _)
CapacityLoop(r, store, ref) ==
    IF r = nb_resources THEN FALSE
    ELSE IF Sweep(SortByTime(Events(r, nb_tasks, store, ref)), 1, 0, capacity[r])
         THEN TRUE
         ELSE CapacityLoop(r + 1, store, ref)

Returned(line, value, store) ==
    [outcome |-> "returned", score |-> value, line |-> line, store |-> store]
Raised(line, store) ==
    [outcome |-> "raised", score |-> 0, line |-> line, store |-> store]

\* lines 109-151, once the candidate has unpacked into two lists of length nb_tasks
Body(store0) ==
    LET a == AllocFinishTimes(store0)
        res == ResourceLoop(0, a.store, a.ref)
    IN  IF res.line # 0 THEN Returned(res.line, Penalty, res.store)
        ELSE IF PrecedenceLoop(0, res.store, a.ref)
             THEN Returned(129, Penalty, res.store)
        ELSE IF CapacityLoop(0, res.store, a.ref)
             THEN Returned(147, Penalty, res.store)
        ELSE Returned(151, PyMax(res.store[a.ref]), res.store)

\* lines 101-151
evaluate_solution(sol) ==
    LET untouched == [task_resources |-> EmptyList, start_times |-> EmptyList,
                      finish_times |-> EmptyList]
    IN  IF ~(IsListOrTuple(sol) /\ PyLen(sol) = 2)
        THEN Returned(104, Penalty, untouched)
        ELSE LET task_resources == sol.items[0]
                 start_times == sol.items[1]
             IN  IF ~HasLen(task_resources) THEN Raised(106, untouched)
                 ELSE IF PyLen(task_resources) # nb_tasks
                      THEN Returned(107, Penalty, untouched)
                 ELSE IF ~HasLen(start_times) THEN Raised(106, untouched)
                 ELSE IF PyLen(start_times) # nb_tasks
                      THEN Returned(107, Penalty, untouched)
                 ELSE Body([task_resources |-> task_resources.items,
                            start_times |-> start_times.items,
                            finish_times |-> EmptyList])

\* The candidate object after the call: its two lists as the call left them.
SolutionAfter(sol, res) ==
    IF res.line \in {104, 106, 107} THEN sol
    ELSE [sol EXCEPT !.items[0].items = res.store.task_resources,
                     !.items[1].items = res.store.start_times]

EvaluateSolution ==
    /\ solution # Absent
    /\ outcome = "pending"
    /\ LET res == evaluate_solution(solution)
       IN  /\ outcome' = res.outcome
           /\ score' = res.score
           /\ exit_line' = res.line
           /\ solution' = SolutionAfter(solution, res)
    /\ UNCHANGED <<instance, generated>>

-----------------------------------------------------------------------------
(* random_solution *)

\* lines 167-170
CompatibleResources(i) ==
    {r \in 0..(nb_resources - 1) :
        ~(task_processing_time_data[i][r] = 0 /\ weights[r][i] = 0)}

\* a choice among all resources, compatible or not
ResourceChoicesAny(i) == 0..(nb_resources - 1)
\* lines 171-174
ResourceChoices(i) ==
    IF CompatibleResources(i) = {} THEN {0} ELSE CompatibleResources(i)

\* lines 163-176
RandomSolution ==
    /\ solution = Absent
    /\ \E tr \in Lists(nb_tasks, 0..(nb_resources - 1)) :
       \E st \in Lists(nb_tasks, 0..horizon) :
          /\ \A i \in 0..(nb_tasks - 1) : tr[i] \in ResourceChoices(i)
          /\ solution' = Candidate(tr, st)
    /\ generated' = TRUE
    /\ UNCHANGED <<instance, outcome, score, exit_line>>

-----------------------------------------------------------------------------
(* Instances and candidates *)

RECURSIVE SetToSeq(_)
SetToSeq(S) ==
    IF S = {} THEN <<>>
    ELSE LET m == CHOOSE x \in S : \A y \in S : x <= y
         IN  <<m>> \o SetToSeq(S \ {m})

Setup(T, R, cap, proc, w, succ, sol) ==
    /\ nb_tasks = T
    /\ nb_resources = R
    /\ capacity = cap
    /\ task_processing_time_data = proc
    /\ weights = w
    /\ successors = succ
    /\ horizon = HorizonOf(T, proc)
    /\ solution = sol
    /\ generated = FALSE
    /\ outcome = "pending"
    /\ score = 0
    /\ exit_line = 0

NoSuccessors(T) == [i \in 0..(T - 1) |-> <<>>]

\* Identical resources: task i takes p[i] and uses w[i] on every resource.
ProcTable(T, R, p) == [i \in 0..(T - 1) |-> [r \in 0..(R - 1) |-> p[i]]]
WeightTable(T, R, w) == [r \in 0..(R - 1) |-> [i \in 0..(T - 1) |-> w[i]]]

\* One resource, every task on it, any start, duration and weight.
InitTimeline ==
    \E T \in 1..MaxTasks : \E c \in 0..MaxCap :
    \E p \in [0..(T - 1) -> 0..MaxProc] : \E w \in [0..(T - 1) -> 0..MaxWeight] :
    \E st \in [0..(T - 1) -> 0..MaxStart] :
        Setup(T, 1, [r \in 0..0 |-> c], ProcTable(T, 1, p), WeightTable(T, 1, w),
              NoSuccessors(T), Candidate([i \in 0..(T - 1) |-> 0], st))

\* Several resources of any capacities, unit tasks all starting at 0.
InitStacking ==
    \E T \in 1..MaxTasks : \E R \in 1..MaxRes :
    \E cap \in [0..(R - 1) -> 0..MaxCap] :
    \E w \in [0..(T - 1) -> 0..MaxWeight] : \E tr \in [0..(T - 1) -> 0..(R - 1)] :
        Setup(T, R, cap, ProcTable(T, R, [i \in 0..(T - 1) |-> 1]),
              WeightTable(T, R, w), NoSuccessors(T),
              Candidate(tr, [i \in 0..(T - 1) |-> 0]))

\* Any successor lists (no task its own successor), any starts and durations;
\* one resource wide enough for every task at once.
InitPrecedence ==
    \E T \in 1..MaxTasks :
    \E succ \in [0..(T - 1) -> SUBSET (0..(T - 1))] :
    \E p \in [0..(T - 1) -> 0..MaxProc] : \E st \in [0..(T - 1) -> 0..MaxStart] :
        /\ \A i \in 0..(T - 1) : i \notin succ[i]
        /\ Setup(T, 1, [r \in 0..0 |-> T], ProcTable(T, 1, p),
                 WeightTable(T, 1, [i \in 0..(T - 1) |-> 1]),
                 [i \in 0..(T - 1) |-> SetToSeq(succ[i])],
                 Candidate([i \in 0..(T - 1) |-> 0], st))

\* Every pair (task, resource) has duration 1 and weight 1 except one pair,
\* which has any; any resource index per task, also out of range.
InitCompatibility ==
    \E T \in 1..MaxTasks : \E R \in 1..MaxRes :
    \E i0 \in 0..(T - 1) : \E r0 \in 0..(R - 1) :
    \E p0 \in 0..MaxProc : \E w0 \in 0..MaxWeight :
    \E tr \in [0..(T - 1) -> (0 - 1)..R] :
        Setup(T, R, [r \in 0..(R - 1) |-> T * (MaxWeight + 1)],
              [i \in 0..(T - 1) |-> [r \in 0..(R - 1) |->
                  IF i = i0 /\ r = r0 THEN p0 ELSE 1]],
              [r \in 0..(R - 1) |-> [i \in 0..(T - 1) |->
                  IF i = i0 /\ r = r0 THEN w0 ELSE 1]],
              NoSuccessors(T), Candidate(tr, [i \in 0..(T - 1) |-> 0]))

\* No candidate yet (random_solution makes it): each task eligible on any set
\* of resources; where eligible, task 0 has the duration and weight of kind and
\* every other task duration 0 and weight 1.
InitGeneration ==
    \E T \in 1..MaxTasks : \E R \in 1..MaxRes :
    \E elig \in [0..(T - 1) -> SUBSET (0..(R - 1))] :
    \E kind \in {<<1, 1>>, <<1, 0>>, <<0, 1>>} :
        Setup(T, R, [r \in 0..(R - 1) |-> T],
              [i \in 0..(T - 1) |-> [r \in 0..(R - 1) |->
                  IF r \in elig[i] /\ i = 0 THEN kind[1] ELSE 0]],
              [r \in 0..(R - 1) |-> [i \in 0..(T - 1) |->
                  IF r \in elig[i] THEN (IF i = 0 THEN kind[2] ELSE 1) ELSE 0]],
              NoSuccessors(T), Absent)

\* Components a malformed candidate may hold: no sequence, or a list of any
\* length up to nb_tasks + 1.
Components(T) ==
    {PyNone, PyInt} \cup {PyList(Zeros(n)) : n \in 0..(T + 1)}

\* Candidates of any shape against an instance of unit tasks.
InitShapes ==
    \E T \in 1..MaxTasks :
    \E sol \in {PyNone, PyInt}
               \cup {PyList(EmptyList), PyTuple(EmptyList)}
               \cup {PyList([k \in 0..0 |-> c]) : c \in Components(T)}
               \cup {PyTuple(Pair(a, b)) : a \in Components(T), b \in Components(T)}
               \cup {PyList(Pair(a, b)) : a \in Components(T), b \in Components(T)}
               \cup {PyTuple([k \in 0..2 |-> c]) : c \in Components(T)} :
        Setup(T, 1, [r \in 0..0 |-> T], ProcTable(T, 1, [i \in 0..(T - 1) |-> 1]),
              WeightTable(T, 1, [i \in 0..(T - 1) |-> 1]), NoSuccessors(T), sol)

Init ==
    \/ InitTimeline
    \/ InitStacking
    \/ InitPrecedence
    \/ InitCompatibility
    \/ InitGeneration
    \/ InitShapes

Next == EvaluateSolution \/ RandomSolution

Spec == Init /\ [][Next]_vars

-----------------------------------------------------------------------------
(* What the claims speak of, stated from the inputs alone *)

Done == outcome # "pending"
Penalised == outcome = "returned" /\ score = Penalty

IsTaskSequence(v) == v.tag \in {"list", "tuple"} /\ PyLen(v) = nb_tasks

\* a pair of sequences, both of length nb_tasks
WellShaped ==
    /\ IsListOrTuple(solution)
    /\ PyLen(solution) = 2
    /\ IsTaskSequence(solution.items[0])
    /\ IsTaskSequence(solution.items[1])

TaskSet == 0..(nb_tasks - 1)
ResourceSet == 0..(nb_resources - 1)
ResourceOf(i) == solution.items[0].items[i]
StartOf(i) == solution.items[1].items[i]
InRange(i) == ResourceOf(i) \in ResourceSet
Duration(i) == task_processing_time_data[i][ResourceOf(i)]
Weight(i) == weights[ResourceOf(i)][i]
Finish(i) == StartOf(i) + Duration(i)
BothZero(i) == Duration(i) = 0 /\ Weight(i) = 0

\* the candidate passes the shape and the per-task resource checks
ValidAssignment ==
    WellShaped /\ \A i \in TaskSet : InRange(i) /\ ~BothZero(i)

PrecedenceBroken ==
    \E i \in TaskSet : \E k \in 1..Len(successors[i]) :
        Finish(i) > StartOf(successors[i][k])

Instants == 0..(MaxStart + MaxProc)

RECURSIVE SumOfWeights(_, _)
SumOfWeights(S, r) ==
    IF S = {} THEN 0
    ELSE LET i == CHOOSE x \in S : TRUE
         IN  weights[r][i] + SumOfWeights(S \ {i}, r)

\* the weights of the tasks on r that are running at t: start <= t < finish
ActiveLoad(r, t) ==
    SumOfWeights({i \in TaskSet : /\ ResourceOf(i) = r
                                  /\ StartOf(i) <= t
                                  /\ t < Finish(i)}, r)

\* usage on r once every delta with a timestamp <= t is summed
GroupedUsage(r, t) ==
    SumOfWeights({i \in TaskSet : ResourceOf(i) = r /\ StartOf(i) <= t}, r)
    - SumOfWeights({i \in TaskSet : ResourceOf(i) = r /\ Finish(i) <= t}, r)

Overloaded == \E r \in ResourceSet : \E t \in Instants : ActiveLoad(r, t) > capacity[r]

\* the lists of the call, with the finish times it computes
CallStore ==
    [task_resources |-> solution.items[0].items,
     start_times |-> solution.items[1].items,
     finish_times |-> [i \in TaskSet |-> Finish(i)]]

SortedEvents(r) == SortByTime(Events(r, nb_tasks, CallStore, "finish_times"))

RECURSIVE UsageAfter(_, _)
\* current_usage after the first k events of ev
UsageAfter(ev, k) ==
    IF k = 0 THEN 0 ELSE Accumulate(UsageAfter(ev, k - 1), ev[k][2])

HasCompatible(i) ==
    \E r \in ResourceSet : task_processing_time_data[i][r] # 0 \/ weights[r][i] # 0

-----------------------------------------------------------------------------
(* Claims *)

\* C1: a well-shaped candidate under which, on some resource r at some instant
\* t, the weights of the tasks assigned to r with start <= t < finish sum to
\* more than capacity[r] is scored the penalty.
C1_OverloadIsPenalised ==
    (Done /\ WellShaped /\ Overloaded) => Penalised

C1_Witness ==
    Done /\ WellShaped /\ Overloaded /\ exit_line = 147

\* C2: the capacity sweep treats the events of one timestamp as simultaneous:
\* it returns the penalty exactly when the usage summed per timestamp exceeds
\* the capacity, so a task starting at the instant another on the same
\* resource finishes is not penalised while the half-open loads fit.
C2_TiesAreSimultaneous ==
    (Done /\ ValidAssignment /\ ~PrecedenceBroken) =>
        /\ exit_line = 147 <=>
              \E r \in ResourceSet : \E t \in Instants :
                  GroupedUsage(r, t) > capacity[r]
        /\ ~Overloaded => exit_line = 151

\* C3: the score is the largest start + duration when every check passes, and
\* the penalty 1e9 in every other case.
C3_MakespanOrPenalty ==
    Done =>
        IF ValidAssignment /\ ~PrecedenceBroken /\ exit_line # 147
        THEN /\ outcome = "returned"
             /\ \E i \in TaskSet : score = Finish(i)
             /\ \A i \in TaskSet : score >= Finish(i)
        ELSE Penalised

\* C4: for a candidate that passes the shape and resource checks, the
\* precedence step returns the penalty if and only if some task finishes after
\* one of its successors starts; finishing exactly at that start is accepted.
C4_PrecedenceStep ==
    (Done /\ ValidAssignment) =>
        /\ exit_line = 129 <=> PrecedenceBroken
        /\ exit_line = 129 => Penalised

C4_Witness ==
    /\ Done /\ ValidAssignment /\ exit_line # 129
    /\ \E i \in TaskSet : \E k \in 1..Len(successors[i]) :
           Finish(i) = StartOf(successors[i][k]) /\ Duration(i) > 0

\* C5: for a well-shaped candidate, the per-task resource step returns the
\* penalty if and only if some task has a resource index outside
\* [0, nb_resources) or both duration 0 and weight 0 on its resource.
C5_ResourceStep ==
    (Done /\ WellShaped) =>
        /\ exit_line \in {117, 122} <=>
              \E i \in TaskSet : ~InRange(i) \/ BothZero(i)
        /\ exit_line \in {117, 122} => Penalised

C5_Witness ==
    /\ Done /\ WellShaped /\ exit_line \notin {117, 122}
    /\ \E i \in TaskSet : Duration(i) > 0 /\ Weight(i) = 0
    /\ \E i \in TaskSet : Duration(i) = 0 /\ Weight(i) > 0

\* C6: a malformed candidate (not a list or tuple, not of length 2, a component
\* that is no sequence, a component of another length than nb_tasks) makes the
\* call return the penalty; it never raises.
C6_MalformedIsPenalised ==
    (Done /\ ~WellShaped) => Penalised

\* C7: a call of evaluate_solution leaves the candidate's two lists and the
\* instance as they were before the call, whichever exit it takes.
C7_InputsUnchanged ==
    [][(outcome = "pending" /\ outcome' # "pending") =>
           (solution' = solution /\ instance' = instance)]_vars

C7_Witness ==
    /\ Done /\ exit_line = 151
    /\ \E i \in TaskSet : Finish(i) # StartOf(i)

\* C9: a candidate made by random_solution is a pair of lists of length
\* nb_tasks with starts in [0, horizon] and resources in [0, nb_resources); it
\* passes the shape and index checks; it passes the compatibility check if and
\* only if every task has a compatible resource, and a task with none is given
\* resource 0 and the candidate is scored the penalty.
C9_GeneratedCandidate ==
    generated =>
        /\ solution.tag = "tuple" /\ WellShaped
        /\ \A i \in TaskSet : StartOf(i) \in 0..horizon /\ InRange(i)
        /\ \A i \in TaskSet : ~HasCompatible(i) => ResourceOf(i) = 0
        /\ Done =>
              /\ exit_line \notin {104, 106, 107, 117}
              /\ exit_line # 122 <=> \A i \in TaskSet : HasCompatible(i)
              /\ (\E i \in TaskSet : ~HasCompatible(i)) => Penalised

C9_Witness ==
    /\ generated /\ Done /\ exit_line = 122
    /\ \E i \in TaskSet : ~HasCompatible(i)
    /\ \E i \in TaskSet : HasCompatible(i)

====
